---- MODULE Spec2Model ----
(***************************************************************************)
(* Mython: the indentation-sensitive lexer (lexer.cpp) and the tree-walking *)
(* evaluator with its object model (runtime.cpp, statement.cpp).            *)
(***************************************************************************)
EXTENDS Integers, Sequences, FiniteSets, TLC

(***************************************************************************)
(* Bounds of the model.                                                     *)
(***************************************************************************)
\* longest input text given to the lexer
MaxLen == 4
\* number of NextToken calls explored after the first Eof
MaxEof == 1
\* most leading spaces of a line of the inputs built from two lines
MaxSpaces == 4
\* largest absolute value of the numbers compared
MaxNum == 1
\* longest string compared
MaxStr == 2
\* most methods of one class of the chain a method is looked up in
MaxMethods == 2
\* most nodes around the innermost statement of a method body
MaxDepth == 2
\* most statements executed by the program that creates instances
MaxSteps == 3
\* most formal parameters of the method whose closure is examined
MaxParams == 2
\* most arguments of the print statement executed
MaxArgs == 2

(***************************************************************************)
(* State.                                                                   *)
(* Lexer: the text input_ of the stream and its read position pos_ (pos_ =  *)
(* Len(input_) + 1 at the end of the stream), the members begin_, indents_, *)
(* indent_pos_ and current_token_, whether an assert stopped the lexer, and *)
(* the tokens handed out so far.                                            *)
(* Runtime: the classes, the class instances (class and fields of each),    *)
(* the closure statements are executed on, the text written to the         *)
(* context's output stream, the statement executed last, how its Execute    *)
(* ended, and the number of statements executed.                            *)
(***************************************************************************)
VARIABLES input_, pos_, begin_, indents_, indent_pos_, current_token_,
          aborted_, emitted

VARIABLES classes, instances, closure, out, stmt, result, steps

lexvars == <<input_, pos_, begin_, indents_, indent_pos_, current_token_,
             aborted_, emitted>>

rtvars == <<classes, instances, closure, out, stmt, result, steps>>

vars == <<lexvars, rtvars>>

(***************************************************************************)
(* LEXER  (src/mython/lexer.cpp)                                            *)
(* Characters are one-character strings.                                    *)
(***************************************************************************)

EOF == "EOF"
NL == "\n"
SP == " "
HASH == "#"
BSL == "\\"
DQ == "\""
SQ == "'"
TAB == "\t"

\* the characters the explored inputs are written with
Alphabet == {SP, NL, HASH, "n", SQ, DQ, BSL}
\* what a read of an uninitialized char may yield
Garbage == {"n", SQ, DQ, SP}

Texts == UNION {[1..k -> Alphabet] : k \in 0..MaxLen}

Spaces(k) == [i \in 1..k |-> SP]

\* what follows a line's leading spaces: nothing, a name, a comment
Bodies == {<<>>, <<"n">>, <<HASH>>}
Lines ==
    {Spaces(s) \o b \o t : s \in 0..MaxSpaces, b \in Bodies, t \in {<<>>, <<NL>>}}

Programs == {a \o b : a \in Lines, b \in Lines}

\* every short text, and every pair of indented lines
Inputs == Texts \cup Programs

Digits == <<"0", "1", "2", "3", "4", "5", "6", "7", "8", "9">>
Letters ==
    {"a", "b", "c", "d", "e", "f", "g", "h", "i", "j", "k", "l", "m", "n", "o",
     "p", "q", "r", "s", "t", "u", "v", "w", "x", "y", "z",
     "A", "B", "C", "D", "E", "F", "G", "H", "I", "J", "K", "L", "M", "N", "O",
     "P", "Q", "R", "S", "T", "U", "V", "W", "X", "Y", "Z"}

IsDigit(c) == \E i \in 1..10 : Digits[i] = c
IsAlpha(c) == c \in Letters
IsAlnum(c) == IsAlpha(c) \/ IsDigit(c)
DigitVal(c) == (CHOOSE i \in 1..10 : Digits[i] = c) - 1

\* a token is <<kind, payload>>
Tok(kind) == <<kind, <<>>>>
Newline == Tok("Newline")
Indent == Tok("Indent")
Dedent == Tok("Dedent")
Eof == Tok("Eof")
NoToken == Tok("NoToken")

\* the reserved words
KeyWords(name) ==
    CASE name = <<"c", "l", "a", "s", "s">> -> "Class"
      [] name = <<"r", "e", "t", "u", "r", "n">> -> "Return"
      [] name = <<"i", "f">> -> "If"
      [] name = <<"e", "l", "s", "e">> -> "Else"
      [] name = <<"d", "e", "f">> -> "Def"
      [] name = <<"p", "r", "i", "n", "t">> -> "Print"
      [] name = <<"a", "n", "d">> -> "And"
      [] name = <<"o", "r">> -> "Or"
      [] name = <<"n", "o", "t">> -> "Not"
      [] name = <<"N", "o", "n", "e">> -> "None"
      [] name = <<"T", "r", "u", "e">> -> "True"
      [] name = <<"F", "a", "l", "s", "e">> -> "False"
      [] OTHER -> "Id"

\* the two-character operators
DualSymbols(dual) ==
    CASE dual = <<"=", "=">> -> "Eq"
      [] dual = <<"!", "=">> -> "NotEq"
      [] dual = <<"<", "=">> -> "LessOrEq"
      [] dual = <<">", "=">> -> "GreaterOrEq"
      [] OTHER -> "Char"

Peek(inp, p) == IF p > Len(inp) THEN EOF ELSE inp[p]

\* the lexer's members, before the constructor's first LoadNextToken
Fresh ==
    [pos |-> 1, begin_ |-> TRUE, indents_ |-> 0, indent_pos_ |-> 0,
     tok |-> NoToken, abort |-> FALSE]

\* std::getline: up to and including the next newline
RECURSIVE GetLine(_, _)
GetLine(inp, p) ==
    IF p > Len(inp) THEN p
    ELSE IF inp[p] = NL THEN p + 1
    ELSE GetLine(inp, p + 1)

\* PassString that keeps the level of the line it drops
PassStringKeepsLevel(inp, L) ==
    [L EXCEPT !.pos = GetLine(inp, L.pos), !.begin_ = TRUE]

PassString(inp, L) ==
    [L EXCEPT !.pos = GetLine(inp, L.pos), !.begin_ = TRUE, !.indents_ = 0]

\* up to, not including, the next newline
RECURSIVE CommentEnd(_, _)
CommentEnd(inp, p) ==
    IF p > Len(inp) THEN p
    ELSE IF inp[p] = NL THEN p
    ELSE CommentEnd(inp, p + 1)

PassComment(inp, L) == [L EXCEPT !.pos = CommentEnd(inp, L.pos)]

RECURSIVE SpacesEnd(_, _)
SpacesEnd(inp, p) ==
    IF p > Len(inp) THEN p
    ELSE IF inp[p] = SP THEN SpacesEnd(inp, p + 1)
    ELSE p

\* CountSpaces that takes one space for one level
CountSpacesNoHalving(inp, L) ==
    LET e == SpacesEnd(inp, L.pos)
        spaces_amount == e - L.pos
    IN  [L EXCEPT !.pos = e,
                  !.indents_ = IF L.begin_ THEN spaces_amount ELSE @]

CountSpaces(inp, L) ==
    LET e == SpacesEnd(inp, L.pos)
        spaces_amount == e - L.pos
    IN  [L EXCEPT !.pos = e,
                  !.indents_ = IF L.begin_ THEN spaces_amount \div 2 ELSE @]

RECURSIVE DigitsEnd(_, _)
DigitsEnd(inp, p) ==
    IF p > Len(inp) THEN p
    ELSE IF IsDigit(inp[p]) THEN DigitsEnd(inp, p + 1)
    ELSE p

RECURSIVE Stoi(_, _, _, _)
Stoi(inp, p, e, acc) ==
    IF p >= e THEN acc ELSE Stoi(inp, p + 1, e, 10 * acc + DigitVal(inp[p]))

ParseNumber(inp, p) ==
    LET e == DigitsEnd(inp, p)
    IN  [pos |-> e, value |-> Stoi(inp, p, e, 0)]

RECURSIVE NameEnd(_, _)
NameEnd(inp, p) ==
    IF p > Len(inp) THEN p
    ELSE IF IsAlnum(inp[p]) \/ inp[p] = "_" THEN NameEnd(inp, p + 1)
    ELSE p

ParseName(inp, p) ==
    LET e == NameEnd(inp, p)
    IN  [pos |-> e, line |-> SubSeq(inp, p, e - 1)]

\* what one escape adds to the literal
Escape(next) ==
    IF next = DQ THEN <<DQ>>
    ELSE IF next = SQ THEN <<SQ>>
    ELSE IF next = "n" THEN <<NL>>
    ELSE IF next = "t" THEN <<TAB>>
    ELSE <<>>

\* the reading loop of ParseString; c is the last character read into c, and
\* g stands for the content of a char that was never written
RECURSIVE StringLoop(_, _, _, _, _, _)
StringLoop(inp, p, start, line, c, g) ==
    IF p > Len(inp) THEN [pos |-> p, line |-> line, c |-> c]
    ELSE IF inp[p] = BSL
         THEN IF p + 1 > Len(inp)
              THEN StringLoop(inp, p + 1, start, line \o Escape(g), BSL, g)
              ELSE StringLoop(inp, p + 2, start, line \o Escape(inp[p + 1]),
                              BSL, g)
         ELSE IF inp[p] = start
              THEN [pos |-> p + 1, line |-> line, c |-> inp[p]]
              ELSE StringLoop(inp, p + 1, start, Append(line, inp[p]),
                              inp[p], g)

\* the literal, and whether assert(c == start) passes
ParseString(inp, p, g) ==
    LET start == inp[p]
        r == StringLoop(inp, p + 1, start, <<>>, g, g)
    IN  [pos |-> r.pos, line |-> r.line, ok |-> r.c = start]

\* the end of the input that hands out Eof with levels still open
AtEndOfInputNoDrain(inp, L) ==
    IF ~L.begin_
    THEN [PassString(inp, L) EXCEPT !.tok = Newline]
    ELSE [L EXCEPT !.tok = Eof]

\* LoadNextToken at the end of the input (lines 184-195)
AtEndOfInput(inp, L) ==
    IF ~L.begin_
    THEN [PassString(inp, L) EXCEPT !.tok = Newline]
    ELSE IF L.indent_pos_ > 0
         THEN [L EXCEPT !.indent_pos_ = @ - 1, !.tok = Dedent]
         ELSE [L EXCEPT !.tok = Eof]

\* Synchronize that emits a Dedent without counting it
SynchronizeNoCount(L) ==
    IF L.indent_pos_ < L.indents_
    THEN [L EXCEPT !.indent_pos_ = @ + 1, !.tok = Indent]
    ELSE [L EXCEPT !.tok = Dedent]

\* Synchronize that reaches the line's level with a single token
SynchronizeAtOnce(L) ==
    IF L.indent_pos_ < L.indents_
    THEN [L EXCEPT !.indent_pos_ = L.indents_, !.tok = Indent]
    ELSE [L EXCEPT !.indent_pos_ = L.indents_, !.tok = Dedent]

\* one Indent or Dedent towards the line's level (lines 210-217)
Synchronize(L) ==
    IF L.indent_pos_ < L.indents_
    THEN [L EXCEPT !.indent_pos_ = @ + 1, !.tok = Indent]
    ELSE [L EXCEPT !.indent_pos_ = @ - 1, !.tok = Dedent]

\* a number, a name, a string literal or a symbol (lines 218-244)
Substantive(inp, L, g) ==
    LET ch == inp[L.pos]
    IN  IF IsDigit(ch)
        THEN LET r == ParseNumber(inp, L.pos)
             IN  [L EXCEPT !.pos = r.pos, !.tok = <<"Number", <<r.value>>>>,
                           !.begin_ = FALSE]
        ELSE IF IsAlpha(ch) \/ ch = "_"
        THEN LET r == ParseName(inp, L.pos)
                 kind == KeyWords(r.line)
             IN  [L EXCEPT !.pos = r.pos,
                           !.tok = IF kind = "Id" THEN <<"Id", r.line>>
                                   ELSE Tok(kind),
                           !.begin_ = FALSE]
        ELSE IF ch = DQ \/ ch = SQ
        THEN LET r == ParseString(inp, L.pos, g)
             IN  IF r.ok
                 THEN [L EXCEPT !.pos = r.pos, !.tok = <<"String", r.line>>,
                                !.begin_ = FALSE]
                 ELSE [L EXCEPT !.pos = r.pos, !.abort = TRUE]
        ELSE LET dual == <<ch, Peek(inp, L.pos + 1)>>
                 kind == DualSymbols(dual)
             IN  IF kind # "Char"
                 THEN [L EXCEPT !.pos = @ + 2, !.tok = Tok(kind),
                                !.begin_ = FALSE]
                 ELSE [L EXCEPT !.pos = @ + 1, !.tok = <<"Char", <<ch>>>>,
                                !.begin_ = FALSE]

RECURSIVE LoadNextToken(_, _, _)
LoadNextToken(inp, L, g) ==
    LET ch == Peek(inp, L.pos)
    IN  IF ch = EOF THEN AtEndOfInput(inp, L)
        ELSE IF ch = NL
        THEN IF L.begin_
             THEN LoadNextToken(inp, PassString(inp, L), g)
             ELSE [PassString(inp, L) EXCEPT !.tok = Newline]
        ELSE IF ch = HASH THEN LoadNextToken(inp, PassComment(inp, L), g)
        ELSE IF ch = SP THEN LoadNextToken(inp, CountSpaces(inp, L), g)
        ELSE IF L.indent_pos_ # L.indents_ /\ L.begin_ THEN Synchronize(L)
        ELSE Substantive(inp, L, g)

\* the lexer's members as one record
Members ==
    [pos |-> pos_, begin_ |-> begin_, indents_ |-> indents_,
     indent_pos_ |-> indent_pos_, tok |-> current_token_, abort |-> aborted_]

Count(toks, t) == Cardinality({i \in 1..Len(toks) : toks[i] = t})

\* the members after a call, and the token handed out unless the call aborted
Becomes(L) ==
    /\ pos_' = L.pos
    /\ begin_' = L.begin_
    /\ indents_' = L.indents_
    /\ indent_pos_' = L.indent_pos_
    /\ current_token_' = L.tok
    /\ aborted_' = L.abort
    /\ emitted' = IF L.abort THEN emitted ELSE Append(emitted, L.tok)

(***************************************************************************)
(* RUNTIME  (src/mython/runtime.cpp)                                        *)
(* An ObjectHolder is a record: t is the type of the object held, n its     *)
(* number (a Number's value, 1 or 0 for a Bool, the index of a class        *)
(* instance or of a class) and s its text (a String's characters, as        *)
(* character codes).                                                        *)
(***************************************************************************)
None == [t |-> "None", n |-> 0, s |-> <<>>]
Number(n) == [t |-> "Number", n |-> n, s |-> <<>>]
String(s) == [t |-> "String", n |-> 0, s |-> s]
Bool(b) == [t |-> "Bool", n |-> IF b THEN 1 ELSE 0, s |-> <<>>]
\* ObjectHolder::Share of class instance i
Share(i) == [t |-> "ClassInstance", n |-> i, s |-> <<>>]
ClassObject(c) == [t |-> "Class", n |-> c, s |-> <<>>]

IsTrue(object) ==
    IF object.t = "Number" THEN object.n # 0
    ELSE IF object.t = "Bool" THEN object.n = 1
    ELSE IF object.t = "String" THEN object.s # <<>>
    ELSE FALSE

\* a Closure maps names to holders
EmptyClosure == [x \in {} |-> None]
Put(cl, name, v) ==
    [x \in DOMAIN cl \cup {name} |-> IF x = name THEN v ELSE cl[x]]

\* how an Execute or a call ends: "ok" with the holder v, "return" with the
\* holder thrown by Return, "error" for a std::runtime_error, "abort" for a
\* failed assert; with the closure, the instances and the output it leaves
Outcome(k, v, cl, W) ==
    [k |-> k, v |-> v, cl |-> cl, inst |-> W.inst, out |-> W.out]
WorldOf(R) == [inst |-> R.inst, out |-> R.out]
Write(W, text) == [W EXCEPT !.out = @ \o text]

\* texts written to a stream, as character codes
RECURSIVE DecimalDigits(_)
DecimalDigits(n) ==
    IF n < 10 THEN <<48 + n>>
    ELSE Append(DecimalDigits(n \div 10), 48 + (n % 10))
Decimal(n) == IF n < 0 THEN <<45>> \o DecimalDigits(-n) ELSE DecimalDigits(n)
TextNone == <<78, 111, 110, 101>>
TextTrue == <<84, 114, 117, 101>>
TextFalse == <<70, 97, 108, 115, 101>>
TextClass == <<67, 108, 97, 115, 115, 32>>
TextSpace == <<32>>
TextNewline == <<10>>
\* os << this: a text that names the instance
TextAddress(i) == <<48, 120>> \o DecimalDigits(i)

\* names of the methods the runtime calls
STR_METHOD == <<"__str__">>
EQ_METHOD == <<"__eq__">>
LT_METHOD == <<"__lt__">>
INIT_METHOD == <<"__init__">>

\* Class::GetMethod: <<the method>>, or <<>> for nullptr
RECURSIVE GetMethod(_, _)
GetMethod(c, name) ==
    LET ms == classes[c].methods_
        hits == {i \in 1..Len(ms) : ms[i].name = name}
    IN  IF hits # {}
        THEN <<ms[CHOOSE i \in hits : \A j \in hits : i <= j]>>
        ELSE IF classes[c].parent_ # 0
             THEN GetMethod(classes[c].parent_, name)
             ELSE <<>>

\* ClassInstance::HasMethod that does not look at the number of arguments
HasMethodAnyArity(c, method, argument_count) ==
    GetMethod(c, method) # <<>>

\* ClassInstance::HasMethod, for an instance of class c
HasMethod(c, method, argument_count) ==
    LET method_ == GetMethod(c, method)
    IN  method_ # <<>> /\ Len(method_[1].formal_params) = argument_count

RECURSIVE Execute(_, _, _)
RECURSIVE Call(_, _, _, _)
RECURSIVE PrintObject(_, _)

\* closure[param] = actual_args.at(index++) for each formal parameter
RECURSIVE BindParams(_, _, _, _)
BindParams(formal_params, actual_args, index, cl) ==
    IF index > Len(formal_params) THEN cl
    ELSE BindParams(formal_params, actual_args, index + 1,
                    Put(cl, formal_params[index], actual_args[index]))

\* ClassInstance::Call on instance i
Call(i, method, actual_args, W) ==
    IF ~HasMethod(W.inst[i].cls_, method, Len(actual_args))
    THEN Outcome("error", None, EmptyClosure, W)
    ELSE LET method_ == GetMethod(W.inst[i].cls_, method)[1]
         IN  IF Len(method_.formal_params) > Len(actual_args)
             THEN Outcome("error", None, EmptyClosure, W)
             ELSE Execute(method_.body,
                          BindParams(method_.formal_params, actual_args, 1,
                                     Put(EmptyClosure, "self", Share(i))),
                          W)

\* Call("__str__"s, {}, context)->Print(os, context), the call having ended
\* as R: operator-> asserts that the holder is not empty
PrintResult(R) ==
    IF R.k # "ok" THEN R
    ELSE IF R.v.t = "None"
    THEN Outcome("abort", None, EmptyClosure, WorldOf(R))
    ELSE PrintObject(R.v, WorldOf(R))

\* Object::Print of the object a non-empty holder holds, to the output
PrintObject(object, W) ==
    IF object.t = "Number"
    THEN Outcome("ok", None, EmptyClosure, Write(W, Decimal(object.n)))
    ELSE IF object.t = "String"
    THEN Outcome("ok", None, EmptyClosure, Write(W, object.s))
    ELSE IF object.t = "Bool"
    THEN Outcome("ok", None, EmptyClosure,
                 Write(W, IF object.n = 1 THEN TextTrue ELSE TextFalse))
    ELSE IF object.t = "Class"
    THEN Outcome("ok", None, EmptyClosure,
                 Write(W, TextClass \o classes[object.n].name_))
    ELSE IF object.t = "ClassInstance"
    THEN IF HasMethod(W.inst[object.n].cls_, STR_METHOD, 0)
         THEN PrintResult(Call(object.n, STR_METHOD, <<>>, W))
         ELSE Outcome("ok", None, EmptyClosure,
                      Write(W, TextAddress(object.n)))
    ELSE Outcome("abort", None, EmptyClosure, W)

\* operator< of two std::string
RECURSIVE StringLess(_, _)
StringLess(a, b) ==
    IF b = <<>> THEN FALSE
    ELSE IF a = <<>> THEN TRUE
    ELSE IF a[1] # b[1] THEN a[1] < b[1]
    ELSE StringLess(Tail(a), Tail(b))

\* IsTrue of the holder a call returned, the call having ended as R
Truth(R) == IF R.k # "ok" THEN R ELSE [R EXCEPT !.v = IsTrue(R.v)]

\* the comparators end like an Execute, with TRUE or FALSE for v
Equal(lhs, rhs, W) ==
    IF lhs.t = "Number" /\ rhs.t = "Number"
    THEN Outcome("ok", lhs.n = rhs.n, EmptyClosure, W)
    ELSE IF lhs.t = "String" /\ rhs.t = "String"
    THEN Outcome("ok", lhs.s = rhs.s, EmptyClosure, W)
    ELSE IF lhs.t = "Bool" /\ rhs.t = "Bool"
    THEN Outcome("ok", lhs.n = rhs.n, EmptyClosure, W)
    ELSE IF lhs.t = "ClassInstance"
    THEN Truth(Call(lhs.n, EQ_METHOD, <<rhs>>, W))
    ELSE IF lhs.t = "None" /\ rhs.t = "None"
    THEN Outcome("ok", TRUE, EmptyClosure, W)
    ELSE Outcome("error", None, EmptyClosure, W)

Less(lhs, rhs, W) ==
    IF lhs.t = "Number" /\ rhs.t = "Number"
    THEN Outcome("ok", lhs.n < rhs.n, EmptyClosure, W)
    ELSE IF lhs.t = "String" /\ rhs.t = "String"
    THEN Outcome("ok", StringLess(lhs.s, rhs.s), EmptyClosure, W)
    ELSE IF lhs.t = "Bool" /\ rhs.t = "Bool"
    THEN Outcome("ok", lhs.n < rhs.n, EmptyClosure, W)
    ELSE IF lhs.t = "ClassInstance"
    THEN Truth(Call(lhs.n, LT_METHOD, <<rhs>>, W))
    ELSE Outcome("error", None, EmptyClosure, W)

\* the result of a comparator negated
Negated(R) == IF R.k # "ok" THEN R ELSE [R EXCEPT !.v = ~R.v]

NotEqual(lhs, rhs, W) == Negated(Equal(lhs, rhs, W))

\* Greater that is the negation of Less alone
GreaterNotLess(lhs, rhs, W) == Negated(Less(lhs, rhs, W))

\* A || Equal(lhs, rhs, context), the left operand having ended as A: Equal
\* is called only when A is false
OrEqual(A, lhs, rhs) ==
    IF A.k # "ok" THEN A
    ELSE IF A.v THEN A
    ELSE Equal(lhs, rhs, WorldOf(A))

Greater(lhs, rhs, W) == Negated(OrEqual(Less(lhs, rhs, W), lhs, rhs))

LessOrEqual(lhs, rhs, W) == Negated(Greater(lhs, rhs, W))

GreaterOrEqual(lhs, rhs, W) == Negated(Less(lhs, rhs, W))

(***************************************************************************)
(* AST  (src/mython/statement.cpp)                                          *)
(* A node is a tuple whose first element names its class:                   *)
(*   <<"Const", holder>>                <<"VariableValue", dotted_ids>>     *)
(*   <<"Assignment", var, rv>>          <<"FieldAssignment", ids, field, rv>>*)
(*   <<"Print", args>>                  <<"MethodCall", object, method, args>>*)
(*   <<"MethodBody", body>>             <<"Return", statement>>             *)
(*   <<"NewInstance", instance, args>>  <<"Or", lhs, rhs>>                  *)
(*   <<"And", lhs, rhs>>                <<"Not", argument>>                 *)
(*   <<"Comparison", cmp, lhs, rhs>>    <<"Compound", args>>                *)
(*   <<"IfElse", condition, if_body, else_body>>                            *)
(* and <<"Null">> stands for a null statement pointer.  A NewInstance node  *)
(* names the class instance that is its member class_instance_.             *)
(***************************************************************************)
Null == <<"Null">>

\* the numeric, string and bool constants yield the holder of their value
ExecConst(node, cl, W) == Outcome("ok", node[2], cl, W)

\* VariableValue::Execute: "ok" and the holder, or "error"
RECURSIVE Lookup(_, _, _)
Lookup(dotted_ids, cl, W) ==
    IF dotted_ids[1] \in DOMAIN cl
    THEN LET variable == cl[dotted_ids[1]]
         IN  IF Len(dotted_ids) > 1
             THEN IF variable.t = "ClassInstance"
                  THEN Lookup(Tail(dotted_ids), W.inst[variable.n].closure_, W)
                  ELSE [k |-> "error", v |-> None]
             ELSE [k |-> "ok", v |-> variable]
    ELSE [k |-> "error", v |-> None]

ExecVariableValue(node, cl, W) ==
    LET r == Lookup(node[2], cl, W) IN Outcome(r.k, r.v, cl, W)

ExecAssignment(node, cl, W) ==
    LET R == Execute(node[3], cl, W)
    IN  IF R.k # "ok" THEN R
        ELSE [R EXCEPT !.cl = Put(R.cl, node[2], R.v)]

ExecFieldAssignment(node, cl, W) ==
    LET object == Lookup(node[2], cl, W)
    IN  IF object.k # "ok" THEN Outcome("error", None, cl, W)
        ELSE IF object.v.t # "ClassInstance" THEN Outcome("error", None, cl, W)
        ELSE LET R == Execute(node[4], cl, W)
             IN  IF R.k # "ok" THEN R
                 ELSE [R EXCEPT !.inst[object.v.n].closure_ =
                                    Put(@, node[3], R.v)]

\* the arguments of a call, executed in order: "ok" with their holders
RECURSIVE ExecArgs(_, _, _, _, _)
ExecArgs(args, i, cl, W, actual_args) ==
    IF i > Len(args) THEN Outcome("ok", actual_args, cl, W)
    ELSE LET R == Execute(args[i], cl, W)
         IN  IF R.k # "ok" THEN R
             ELSE ExecArgs(args, i + 1, R.cl, WorldOf(R),
                           Append(actual_args, R.v))

\* the loop of Print::Execute from argument i on
RECURSIVE PrintArgs(_, _, _, _)
PrintArgs(args, i, cl, W) ==
    IF i > Len(args) THEN Outcome("ok", None, cl, Write(W, TextNewline))
    ELSE LET W1 == IF i > 1 THEN Write(W, TextSpace) ELSE W
             R == Execute(args[i], cl, W1)
         IN  IF R.k # "ok" THEN R
             ELSE IF R.v.t # "None"
             THEN LET P == PrintObject(R.v, WorldOf(R))
                  IN  IF P.k # "ok" THEN [P EXCEPT !.cl = R.cl]
                      ELSE PrintArgs(args, i + 1, R.cl, WorldOf(P))
             ELSE PrintArgs(args, i + 1, R.cl,
                            Write(WorldOf(R), TextNone))

ExecPrint(node, cl, W) == PrintArgs(node[2], 1, cl, W)

ExecMethodCall(node, cl, W) ==
    LET O == Execute(node[2], cl, W)
    IN  IF O.k # "ok" THEN O
        ELSE IF O.v.t # "ClassInstance"
        THEN Outcome("error", None, O.cl, WorldOf(O))
        ELSE LET A == ExecArgs(node[4], 1, O.cl, WorldOf(O), <<>>)
             IN  IF A.k # "ok" THEN A
                 ELSE [Call(O.v.n, node[3], A.v, WorldOf(A))
                          EXCEPT !.cl = A.cl]

\* MethodBody::Execute that lets the thrown holder through
MethodBodyNoCatch(node, cl, W) == Execute(node[2], cl, W)

ExecMethodBody(node, cl, W) ==
    LET R == Execute(node[2], cl, W)
    IN  IF R.k = "return" THEN [R EXCEPT !.k = "ok"] ELSE R

ExecReturn(node, cl, W) ==
    LET R == Execute(node[2], cl, W)
    IN  IF R.k = "ok" THEN [R EXCEPT !.k = "return"] ELSE R

\* the member class_instance_ of the node is instance node[2]
ExecNewInstance(node, cl, W) ==
    IF HasMethod(W.inst[node[2]].cls_, INIT_METHOD, Len(node[3]))
    THEN LET A == ExecArgs(node[3], 1, cl, W, <<>>)
         IN  IF A.k # "ok" THEN A
             ELSE LET R == Call(node[2], INIT_METHOD, A.v, WorldOf(A))
                  IN  IF R.k # "ok" THEN [R EXCEPT !.cl = A.cl]
                      ELSE [R EXCEPT !.cl = A.cl, !.v = Share(node[2])]
    ELSE Outcome("ok", Share(node[2]), cl, W)

ExecOr(node, cl, W) ==
    LET L == Execute(node[2], cl, W)
    IN  IF L.k # "ok" THEN L
        ELSE IF IsTrue(L.v) THEN [L EXCEPT !.v = Bool(TRUE)]
        ELSE LET R == Execute(node[3], L.cl, WorldOf(L))
             IN  IF R.k # "ok" THEN R ELSE [R EXCEPT !.v = Bool(IsTrue(R.v))]

\* And::Execute that executes both operands before it looks at the first
AndEager(node, cl, W) ==
    LET L == Execute(node[2], cl, W)
    IN  IF L.k # "ok" THEN L
        ELSE LET R == Execute(node[3], L.cl, WorldOf(L))
             IN  IF R.k # "ok" THEN R
                 ELSE [R EXCEPT !.v = Bool(IsTrue(L.v) /\ IsTrue(R.v))]

ExecAnd(node, cl, W) ==
    LET L == Execute(node[2], cl, W)
    IN  IF L.k # "ok" THEN L
        ELSE IF IsTrue(L.v)
        THEN LET R == Execute(node[3], L.cl, WorldOf(L))
             IN  IF R.k # "ok" THEN R ELSE [R EXCEPT !.v = Bool(IsTrue(R.v))]
        ELSE [L EXCEPT !.v = Bool(FALSE)]

ExecNot(node, cl, W) ==
    LET R == Execute(node[2], cl, W)
    IN  IF R.k # "ok" THEN R ELSE [R EXCEPT !.v = Bool(~IsTrue(R.v))]

\* the comparator a Comparison node holds
Comparator(cmp, lhs, rhs, W) ==
    CASE cmp = "Equal" -> Equal(lhs, rhs, W)
      [] cmp = "NotEqual" -> NotEqual(lhs, rhs, W)
      [] cmp = "Less" -> Less(lhs, rhs, W)
      [] cmp = "Greater" -> Greater(lhs, rhs, W)
      [] cmp = "LessOrEqual" -> LessOrEqual(lhs, rhs, W)
      [] cmp = "GreaterOrEqual" -> GreaterOrEqual(lhs, rhs, W)

\* ObjectHolder::Own(std::move(result)), the comparator having ended as C
OwnBool(C, cl) ==
    IF C.k # "ok" THEN [C EXCEPT !.cl = cl]
    ELSE [C EXCEPT !.cl = cl, !.v = Bool(C.v)]

ExecComparison(node, cl, W) ==
    LET L == Execute(node[3], cl, W)
    IN  IF L.k # "ok" THEN L
        ELSE LET R == Execute(node[4], L.cl, WorldOf(L))
             IN  IF R.k # "ok" THEN R
                 ELSE OwnBool(Comparator(node[2], L.v, R.v, WorldOf(R)),
                              R.cl)

\* the loop of Compound::Execute from statement i on
RECURSIVE CompoundFrom(_, _, _, _)
CompoundFrom(args, i, cl, W) ==
    IF i > Len(args) THEN Outcome("ok", None, cl, W)
    ELSE LET R == Execute(args[i], cl, W)
         IN  IF R.k # "ok" THEN R
             ELSE CompoundFrom(args, i + 1, R.cl, WorldOf(R))

ExecCompound(node, cl, W) == CompoundFrom(node[2], 1, cl, W)

ExecIfElse(node, cl, W) ==
    LET C == Execute(node[2], cl, W)
    IN  IF C.k # "ok" THEN C
        ELSE IF IsTrue(C.v) THEN Execute(node[3], C.cl, WorldOf(C))
        ELSE IF node[4] # Null THEN Execute(node[4], C.cl, WorldOf(C))
        ELSE [C EXCEPT !.v = None]

\* Statement::Execute, dispatched on the node's class
Execute(node, cl, W) ==
    CASE node[1] = "Const" -> ExecConst(node, cl, W)
      [] node[1] = "VariableValue" -> ExecVariableValue(node, cl, W)
      [] node[1] = "Assignment" -> ExecAssignment(node, cl, W)
      [] node[1] = "FieldAssignment" -> ExecFieldAssignment(node, cl, W)
      [] node[1] = "Print" -> ExecPrint(node, cl, W)
      [] node[1] = "MethodCall" -> ExecMethodCall(node, cl, W)
      [] node[1] = "MethodBody" -> ExecMethodBody(node, cl, W)
      [] node[1] = "Return" -> ExecReturn(node, cl, W)
      [] node[1] = "NewInstance" -> ExecNewInstance(node, cl, W)
      [] node[1] = "Or" -> ExecOr(node, cl, W)
      [] node[1] = "And" -> ExecAnd(node, cl, W)
      [] node[1] = "Not" -> ExecNot(node, cl, W)
      [] node[1] = "Comparison" -> ExecComparison(node, cl, W)
      [] node[1] = "Compound" -> ExecCompound(node, cl, W)
      [] node[1] = "IfElse" -> ExecIfElse(node, cl, W)

(***************************************************************************)
(* THE LEXER AS A STATE MACHINE                                             *)
(***************************************************************************)
\* no program is loaded into the runtime
RuntimeIdle ==
    /\ classes = <<>>
    /\ instances = <<>>
    /\ closure = EmptyClosure
    /\ out = <<>>
    /\ stmt = Null
    /\ result = [k |-> "none", v |-> None]
    /\ steps = 0

\* no lexer reads a text
LexerIdle ==
    /\ input_ = <<>>
    /\ pos_ = 1
    /\ begin_ = TRUE
    /\ indents_ = 0
    /\ indent_pos_ = 0
    /\ current_token_ = NoToken
    /\ aborted_ = FALSE
    /\ emitted = <<>>

\* Lexer::Lexer: the members' initial values and the first LoadNextToken
LexerInit ==
    /\ input_ \in Inputs
    /\ \E g \in Garbage :
          LET L == LoadNextToken(input_, Fresh, g)
          IN  /\ pos_ = L.pos
              /\ begin_ = L.begin_
              /\ indents_ = L.indents_
              /\ indent_pos_ = L.indent_pos_
              /\ current_token_ = L.tok
              /\ aborted_ = L.abort
              /\ emitted = IF L.abort THEN <<>> ELSE <<L.tok>>

\* Lexer::NextToken
NextToken ==
    /\ ~aborted_
    /\ Count(emitted, Eof) <= MaxEof
    /\ \E g \in Garbage : Becomes(LoadNextToken(input_, Members, g))
    /\ UNCHANGED <<input_, rtvars>>

Init == LexerInit /\ RuntimeIdle

Next == NextToken

Spec == Init /\ [][Next]_vars

(***************************************************************************)
(* THE RUNTIME AS A STATE MACHINE                                           *)
(* One step executes one statement on the closure of the program, with the  *)
(* context whose output stream is out.                                      *)
(***************************************************************************)
Run(node) ==
    LET R == Execute(node, closure, [inst |-> instances, out |-> out])
    IN  /\ closure' = R.cl
        /\ instances' = R.inst
        /\ out' = R.out
        /\ stmt' = node
        /\ result' = [k |-> R.k, v |-> R.v]
        /\ steps' = steps + 1
        /\ UNCHANGED <<classes, lexvars>>

\* the initial state of a program with these classes, instances and names
Loaded(cs, is, cl) ==
    /\ LexerIdle
    /\ classes = cs
    /\ instances = is
    /\ closure = cl
    /\ out = <<>>
    /\ stmt = Null
    /\ result = [k |-> "none", v |-> None]
    /\ steps = 0

\* constructors of the nodes
Const(v) == <<"Const", v>>
VariableValue(dotted_ids) == <<"VariableValue", dotted_ids>>
Assignment(var, rv) == <<"Assignment", var, rv>>
FieldAssignment(object, field_name, rv) ==
    <<"FieldAssignment", object, field_name, rv>>
PrintOf(args) == <<"Print", args>>
MethodCall(object, method, args) == <<"MethodCall", object, method, args>>
MethodBody(body) == <<"MethodBody", body>>
Return(statement) == <<"Return", statement>>
NewInstance(class_instance_, args) == <<"NewInstance", class_instance_, args>>
Comparison(cmp, lhs, rhs) == <<"Comparison", cmp, lhs, rhs>>
Compound(args) == <<"Compound", args>>
IfElse(condition, if_body, else_body) ==
    <<"IfElse", condition, if_body, else_body>>

Method(name, formal_params, body) ==
    [name |-> name, formal_params |-> formal_params, body |-> body]
Class(name, methods, parent) ==
    [name_ |-> name, methods_ |-> methods, parent_ |-> parent]
\* ClassInstance::ClassInstance: an instance of class cls with no fields
ClassInstance(cls) == [cls_ |-> cls, closure_ |-> EmptyClosure]

\* the elements of a finite set in some order
RECURSIVE SeqOf(_)
SeqOf(S) ==
    IF S = {} THEN <<>>
    ELSE LET x == CHOOSE y \in S : TRUE IN <<x>> \o SeqOf(S \ {x})

(***************************************************************************)
(* Comparisons: two operands drawn from the values below are compared.      *)
(* Class A has no methods; class B has __eq__, which returns True, and      *)
(* __lt__, which returns False.                                             *)
(***************************************************************************)
CmpClasses ==
    <<Class(<<65>>, <<>>, 0),
      Class(<<66>>,
            <<Method(EQ_METHOD, <<"o">>,
                     MethodBody(Return(Const(Bool(TRUE))))),
              Method(LT_METHOD, <<"o">>,
                     MethodBody(Return(Const(Bool(FALSE)))))>>,
            0)>>

CmpStrings == UNION {[1..n -> {97, 98}] : n \in 0..MaxStr}

CmpValues ==
    {Number(n) : n \in (0 - MaxNum)..MaxNum}
        \cup {String(s) : s \in CmpStrings}
        \cup {Bool(TRUE), Bool(FALSE), None, ClassObject(1), Share(1), Share(2)}

Comparators ==
    {"Equal", "NotEqual", "Less", "Greater", "LessOrEqual", "GreaterOrEqual"}

CmpInit ==
    \E a \in CmpValues, b \in CmpValues :
        Loaded(CmpClasses, <<ClassInstance(1), ClassInstance(2)>>,
               Put(Put(EmptyClosure, "lhs", a), "rhs", b))

Compare ==
    /\ steps = 0
    /\ \E cmp \in Comparators :
          Run(Comparison(cmp, VariableValue(<<"lhs">>),
                         VariableValue(<<"rhs">>)))

SpecCmp == CmpInit /\ [][Compare]_vars

(***************************************************************************)
(* Method dispatch: a chain of three classes, each the parent of the next,  *)
(* with every choice of methods named f; each method prints and returns a   *)
(* number of its own.                                                       *)
(***************************************************************************)
Params(arity) == [i \in 1..arity |-> <<"a", "b">>[i]]

Templates == {[name |-> <<"f">>, arity |-> n] : n \in 0..1}
                 \cup {[name |-> <<"g">>, arity |-> 0]}

MethodLists == UNION {[1..n -> Templates] : n \in 0..MaxMethods}

\* the number that method j of class c prints and returns
Tag(c, j) == 10 * c + j

TaggedMethods(c, list) ==
    [j \in 1..Len(list) |->
        Method(list[j].name, Params(list[j].arity),
               MethodBody(Compound(<<PrintOf(<<Const(Number(Tag(c, j)))>>),
                                     Return(Const(Number(Tag(c, j))))>>)))]

CallInit ==
    \E l1 \in MethodLists, l2 \in MethodLists, l3 \in MethodLists :
        Loaded(<<Class(<<65>>, TaggedMethods(1, l1), 0),
                 Class(<<66>>, TaggedMethods(2, l2), 1),
                 Class(<<67>>, TaggedMethods(3, l3), 2)>>,
               <<ClassInstance(3)>>,
               Put(EmptyClosure, "x", Share(1)))

CallMethod ==
    /\ steps = 0
    /\ \E name \in {<<"f">>, <<"h">>}, n \in 0..2 :
          Run(MethodCall(VariableValue(<<"x">>), name,
                         [i \in 1..n |-> Const(Number(0))]))

SpecCall == CallInit /\ [][CallMethod]_vars

(***************************************************************************)
(* Return: class R has, for every shape, three methods of one parameter a.  *)
(* A shape lists from the outside in the nodes around the innermost        *)
(* statement: "C" is a Compound that prints the depth before the inner     *)
(* statement and minus the depth after it, "T" an IfElse with a true        *)
(* condition, the inner statement for its if_body and no else_body, "E" an  *)
(* IfElse with a false condition, a Return for its if_body and the inner    *)
(* statement for its else_body.  In method m + shape the innermost          *)
(* statement is "return a", in method n + shape it is the expression a, and *)
(* method o + shape is  r = self.m + shape(a); print 0; return r.           *)
(***************************************************************************)
Shapes == UNION {[1..n -> {"C", "T", "E"}] : n \in 0..MaxDepth}

RECURSIVE Body(_, _, _)
Body(ks, d, leaf) ==
    IF ks = <<>> THEN leaf
    ELSE LET inner == Body(Tail(ks), d + 1, leaf)
         IN  CASE Head(ks) = "C" ->
                     Compound(<<PrintOf(<<Const(Number(d))>>), inner,
                                PrintOf(<<Const(Number(0 - d))>>)>>)
               [] Head(ks) = "T" -> IfElse(Const(Bool(TRUE)), inner, Null)
               [] Head(ks) = "E" ->
                     IfElse(Const(Bool(FALSE)),
                            Return(Const(Number(0 - d))), inner)

ShapeMethods(ks) ==
    <<Method(<<"m">> \o ks, <<"a">>,
             MethodBody(Body(ks, 1, Return(VariableValue(<<"a">>))))),
      Method(<<"n">> \o ks, <<"a">>,
             MethodBody(Body(ks, 1, VariableValue(<<"a">>)))),
      Method(<<"o">> \o ks, <<"a">>,
             MethodBody(Compound(
                 <<Assignment("r", MethodCall(VariableValue(<<"self">>),
                                              <<"m">> \o ks,
                                              <<VariableValue(<<"a">>)>>)),
                   PrintOf(<<Const(Number(0))>>),
                   Return(VariableValue(<<"r">>))>>)))>>

RECURSIVE MethodsOf(_)
MethodsOf(shapes) ==
    IF shapes = <<>> THEN <<>>
    ELSE ShapeMethods(Head(shapes)) \o MethodsOf(Tail(shapes))

ReturnClasses == <<Class(<<82>>, MethodsOf(SeqOf(Shapes)), 0)>>

ReturnValues == {Number(7), String(<<97>>), None}

ReturnInit ==
    Loaded(ReturnClasses, <<ClassInstance(1)>>,
           Put(EmptyClosure, "x", Share(1)))

\* r = x.<kind + shape>(v)
CallShaped ==
    /\ steps = 0
    /\ \E kind \in {"m", "n", "o"}, ks \in Shapes, v \in ReturnValues :
          Run(Assignment("r", MethodCall(VariableValue(<<"x">>),
                                         <<kind>> \o ks, <<Const(v)>>)))

SpecReturn == ReturnInit /\ [][CallShaped]_vars

(***************************************************************************)
(* And, Or: class S has the methods left(v) and right(v); each prints its   *)
(* letter, stores v in the field of its name and returns v.  The operands   *)
(* of the operation are  l = s.left(a)  and  r = s.right(b).                *)
(***************************************************************************)
Say(name, letter) ==
    Method(<<name>>, <<"v">>,
           MethodBody(Compound(
               <<PrintOf(<<Const(String(letter))>>),
                 FieldAssignment(<<"self">>, name, VariableValue(<<"v">>)),
                 Return(VariableValue(<<"v">>))>>)))

LogicClasses == <<Class(<<83>>, <<Say("left", <<76>>), Say("right", <<82>>)>>, 0)>>

Truths ==
    {None, Number(0), Number(1), String(<<>>), String(<<97>>), Bool(TRUE),
     Bool(FALSE), Share(1)}

Operand(var, name, v) ==
    Assignment(var, MethodCall(VariableValue(<<"s">>), <<name>>, <<Const(v)>>))

LogicNode(op, a, b) == <<op, Operand("l", "left", a), Operand("r", "right", b)>>

LogicInit ==
    Loaded(LogicClasses, <<ClassInstance(1)>>,
           Put(EmptyClosure, "s", Share(1)))

Operate ==
    /\ steps = 0
    /\ \E op \in {"And", "Or"}, a \in Truths, b \in Truths :
          Run(LogicNode(op, a, b))

SpecLogic == LogicInit /\ [][Operate]_vars

(***************************************************************************)
(* NewInstance: class P has no methods, class Q has __init__(v), which      *)
(* stores v in the field f.  The program has three NewInstance nodes, two   *)
(* of class P and one of class Q; each node holds the instance that its     *)
(* constructor made.  A step assigns the result of a node to x or y, or     *)
(* assigns a number to the field f of x or y.                               *)
(***************************************************************************)
NewClasses ==
    <<Class(<<80>>, <<>>, 0),
      Class(<<81>>,
            <<Method(INIT_METHOD, <<"v">>,
                     MethodBody(FieldAssignment(<<"self">>, "f",
                                                VariableValue(<<"v">>))))>>,
            0)>>

\* NewInstance::NewInstance: class_instance_(class_), for the three nodes
NewInstances == <<ClassInstance(1), ClassInstance(1), ClassInstance(2)>>

NewNodes ==
    {NewInstance(1, <<>>), NewInstance(2, <<>>),
     NewInstance(3, <<Const(Number(5))>>)}

NewInit == Loaded(NewClasses, NewInstances, EmptyClosure)

Create ==
    /\ steps < MaxSteps
    /\ \E var \in {"x", "y"}, node \in NewNodes : Run(Assignment(var, node))

SetField ==
    /\ steps < MaxSteps
    /\ \E var \in DOMAIN closure, n \in 1..2 :
          Run(FieldAssignment(<<var>>, "f", Const(Number(n))))

NewNext == Create \/ SetField

SpecNew == NewInit /\ [][NewNext]_vars

(***************************************************************************)
(* Closures of calls: class K has methods that all have the same formal     *)
(* parameters, drawn from the names a, b and self.  Method get + name       *)
(* returns the value of the name, method set + name assigns 9 to the name.  *)
(* The calling closure binds x to the instance, g to 7 and a to 8, and      *)
(* argument i of a call is the number i.                                    *)
(***************************************************************************)
ParamLists == UNION {[1..n -> {"a", "b", "self"}] : n \in 0..MaxParams}

ProbeNames == {"self", "a", "b", "g", "x"}

WriteNames == {"a", "g", "x", "t"}

IsoMethods(formal_params) ==
    [j \in 1..Len(SeqOf(ProbeNames)) |->
        Method(<<"get", SeqOf(ProbeNames)[j]>>, formal_params,
               MethodBody(Return(VariableValue(<<SeqOf(ProbeNames)[j]>>))))]
    \o [j \in 1..Len(SeqOf(WriteNames)) |->
        Method(<<"set", SeqOf(WriteNames)[j]>>, formal_params,
               MethodBody(Assignment(SeqOf(WriteNames)[j],
                                     Const(Number(9)))))]

CallerClosure ==
    Put(Put(Put(EmptyClosure, "x", Share(1)), "g", Number(7)), "a", Number(8))

IsoInit ==
    \E formal_params \in ParamLists :
        Loaded(<<Class(<<75>>, IsoMethods(formal_params), 0)>>,
               <<ClassInstance(1)>>, CallerClosure)

\* x.<method>(1, ..., n), n the number of formal parameters
IsoCall(method) ==
    MethodCall(VariableValue(<<"x">>), method,
               [i \in 1..Len(classes[1].methods_[1].formal_params) |->
                   Const(Number(i))])

CallGet ==
    /\ steps = 0
    /\ \E name \in ProbeNames : Run(IsoCall(<<"get", name>>))

CallSet ==
    /\ steps = 0
    /\ \E name \in WriteNames : Run(IsoCall(<<"set", name>>))

IsoNext == CallGet \/ CallSet

SpecIso == IsoInit /\ [][IsoNext]_vars

(***************************************************************************)
(* Print: class E has the method echo(v), which prints an exclamation mark  *)
(* on a line and returns v.  An argument of the print statement is a        *)
(* constant or the call x.echo(constant).                                   *)
(***************************************************************************)
EchoClasses ==
    <<Class(<<69>>,
            <<Method(<<"echo">>, <<"v">>,
                     MethodBody(Compound(
                         <<PrintOf(<<Const(String(<<33>>))>>),
                           Return(VariableValue(<<"v">>))>>)))>>,
            0)>>

PrintedValues ==
    {None, Number(1), Number(0 - 2), String(<<97>>), Bool(TRUE)}

Echo(v) == MethodCall(VariableValue(<<"x">>), <<"echo">>, <<Const(v)>>)

Arguments ==
    {Const(v) : v \in PrintedValues} \cup {Echo(v) : v \in PrintedValues}

ArgLists == UNION {[1..n -> Arguments] : n \in 0..MaxArgs}

PrintInit ==
    Loaded(EchoClasses, <<ClassInstance(1)>>, Put(EmptyClosure, "x", Share(1)))

PrintArguments ==
    /\ steps = 0
    /\ \E args \in ArgLists : Run(PrintOf(args))

SpecPrint == PrintInit /\ [][PrintArguments]_vars

(***************************************************************************)
(* CLAIMS ABOUT THE LEXER                                                   *)
(***************************************************************************)
\* the whole token sequence of a text, up to the first Eof or to the abort
RECURSIVE LexFrom(_, _, _, _)
LexFrom(inp, L, g, toks) ==
    LET N == LoadNextToken(inp, L, g)
    IN  IF N.abort THEN [toks |-> toks, abort |-> TRUE]
        ELSE IF N.tok = Eof THEN [toks |-> Append(toks, Eof), abort |-> FALSE]
        ELSE LexFrom(inp, N, g, Append(toks, N.tok))

LexAll(inp, g) == LexFrom(inp, Fresh, g, <<>>)

\* Indent tokens emitted so far minus Dedent tokens emitted so far
Pending(toks) == Count(toks, Indent) - Count(toks, Dedent)

IsSubstantive(t) == t \notin {Newline, Indent, Dedent, Eof, NoToken}

\* C1: after construction and after any number of NextToken calls, the number
\* of Indent tokens emitted minus the number of Dedent tokens emitted equals
\* indent_pos_, and over no prefix of the emitted tokens is it negative.
C1_IndentBalance ==
    /\ Pending(emitted) = indent_pos_
    /\ \A k \in 0..Len(emitted) : Pending(SubSeq(emitted, 1, k)) >= 0

\* an Indent was matched by a Dedent and the input was read to its end
C1_Witness ==
    /\ Count(emitted, Indent) >= 2
    /\ Count(emitted, Dedent) >= 2
    /\ current_token_ = Eof

\* C2: once the input is exhausted the next tokens are one Newline exactly
\* when the last token emitted is a substantive one, then one Dedent per call
\* for each level still open, then Eof, and Eof again on every later call; at
\* Eof as many Indent as Dedent tokens have been emitted.
C2_Step ==
    (~aborted_ /\ pos_ > Len(input_)) =>
        /\ ~aborted_'
        /\ emitted' = Append(emitted, current_token_')
        /\ IF emitted # <<>> /\ IsSubstantive(emitted[Len(emitted)])
           THEN current_token_' = Newline /\ indent_pos_' = indent_pos_
           ELSE IF indent_pos_ > 0
                THEN current_token_' = Dedent /\ indent_pos_' = indent_pos_ - 1
                ELSE /\ current_token_' = Eof
                     /\ Count(emitted', Indent) = Count(emitted', Dedent)
        /\ (current_token_ = Eof => current_token_' = Eof)
        /\ pos_' > Len(input_)

C2_EndOfInput == [][C2_Step]_vars

\* an unterminated last line inside two open levels was closed and Eof
\* was handed out twice
C2_Witness ==
    /\ Len(emitted) >= 5
    /\ SubSeq(emitted, Len(emitted) - 4, Len(emitted))
         = <<Newline, Dedent, Dedent, Eof, Eof>>

\* first position of the line that holds position p
RECURSIVE LineStartOf(_, _)
LineStartOf(inp, p) ==
    IF p = 1 THEN 1
    ELSE IF inp[p - 1] = NL THEN p
    ELSE LineStartOf(inp, p - 1)

RECURSIVE LeadingSpaces(_, _)
LeadingSpaces(inp, q) ==
    IF q <= Len(inp) /\ inp[q] = SP THEN 1 + LeadingSpaces(inp, q + 1) ELSE 0

\* position after the next newline at or after p; past the end when none
RECURSIVE AfterNewline(_, _)
AfterNewline(inp, p) ==
    IF p > Len(inp) THEN p
    ELSE IF inp[p] = NL THEN p + 1
    ELSE AfterNewline(inp, p + 1)

\* the first line at or after line start q that carries a substantive
\* token, and its leading spaces
RECURSIVE NextCodeLine(_, _)
NextCodeLine(inp, q) ==
    LET s == LeadingSpaces(inp, q)
    IN  IF q + s > Len(inp) THEN [found |-> FALSE, s |-> 0]
        ELSE IF inp[q + s] \in {NL, HASH}
        THEN NextCodeLine(inp, AfterNewline(inp, q + s))
        ELSE [found |-> TRUE, s |-> s]

\* what the token after a line start has to be, at emitted level d
SyncToken(line, d, tok, aborted) ==
    line.found =>
        IF line.s \div 2 > d THEN ~aborted /\ tok = Indent
        ELSE IF line.s \div 2 < d THEN ~aborted /\ tok = Dedent
        ELSE aborted \/ IsSubstantive(tok)

\* the token the constructor loads
C10_First ==
    SyncToken(NextCodeLine(input_, 1), 0,
              IF emitted = <<>> THEN NoToken ELSE emitted[1], aborted_)

C10_Step ==
    /\ (~aborted_ /\ begin_ /\ pos_ <= Len(input_)) =>
          /\ SyncToken(NextCodeLine(input_, LineStartOf(input_, pos_)),
                       Pending(emitted), current_token_', aborted_')
          /\ ~aborted_' => emitted' = Append(emitted, current_token_')
    /\ (~aborted_ /\ ~begin_) =>
          /\ current_token_' \notin {Indent, Dedent}
          /\ indent_pos_' = indent_pos_
          /\ Pending(emitted') = Pending(emitted)

\* C10: a line that carries a substantive token and has s leading spaces,
\* read at emitted level d, yields one Indent per call while floor(s/2) > d,
\* one Dedent per call while floor(s/2) < d, and its first substantive token
\* only at floor(s/2) = d; after that token no Indent or Dedent is emitted
\* and the level does not change before the next Newline.
C10_Synchronization ==
    /\ C10_First
    /\ [][C10_Step]_vars

\* two levels were opened for one line and closed for the next, and the
\* second line's name was handed out
C10_Witness ==
    /\ Len(emitted) >= 7
    /\ SubSeq(emitted, 1, 7)
         = <<Indent, Indent, <<"Id", <<"n">>>>, Newline, Dedent, Dedent,
             <<"Id", <<"n">>>>>>

\* whether position p of the text lies inside a string literal, reading
\* from position i in the given mode ("code", "comment", or the opening
\* quote of the literal being read)
RECURSIVE InLiteral(_, _, _, _)
InLiteral(inp, i, mode, p) ==
    IF i >= p \/ i > Len(inp) THEN mode \in {SQ, DQ}
    ELSE IF mode = "code"
         THEN InLiteral(inp, i + 1,
                        IF inp[i] \in {SQ, DQ} THEN inp[i]
                        ELSE IF inp[i] = HASH THEN "comment" ELSE "code", p)
    ELSE IF mode = "comment"
         THEN InLiteral(inp, i + 1, IF inp[i] = NL THEN "code" ELSE mode, p)
    ELSE IF inp[i] = BSL
         THEN IF i + 1 >= p THEN TRUE ELSE InLiteral(inp, i + 2, mode, p)
    ELSE InLiteral(inp, i + 1, IF inp[i] = mode THEN "code" ELSE mode, p)

\* lines of spaces only, and of optional spaces and a comment
BlankLines ==
    {Spaces(s) \o c : s \in 0..MaxSpaces,
                      c \in {<<>>, <<HASH>>, <<HASH, "n">>, <<HASH, SQ>>}}

\* the line starts of a text, and the position after its end
LineStarts(inp) ==
    {p \in 1..(Len(inp) + 1) :
        p = 1 \/ inp[p - 1] = NL \/ p = Len(inp) + 1}

\* the text with a line put in at p: between two lines, at the start, or
\* after the last line (which is then ended by a newline first)
InsertLine(inp, p, line) ==
    IF p = 1 \/ inp[p - 1] = NL
    THEN SubSeq(inp, 1, p - 1) \o line \o <<NL>> \o SubSeq(inp, p, Len(inp))
    ELSE inp \o <<NL>> \o line

\* the lexer is through with its input
Finished == aborted_ \/ (current_token_ = Eof /\ Count(emitted, Eof) = 1)

SameTokens(inp) ==
    \E g \in Garbage : LexAll(inp, g) = [toks |-> emitted, abort |-> aborted_]

\* C3 as stated: a blank or comment-only line put in at any line start of
\* any input leaves the token sequence unchanged (here for the inputs that
\* are lexed without an error and whose string literals are all closed).
C3_AnyLineStart ==
    (Finished /\ ~aborted_
       /\ ~InLiteral(input_, 1, "code", Len(input_) + 1)) =>
        \A p \in LineStarts(input_) : \A line \in BlankLines :
            SameTokens(InsertLine(input_, p, line))

\* C3, amended: a blank or comment-only line put in at a line start that
\* is not inside a string literal leaves the token sequence unchanged.
C3_OutsideLiterals ==
    Finished =>
        \A p \in LineStarts(input_) : \A line \in BlankLines :
            ~InLiteral(input_, 1, "code", p) =>
                SameTokens(InsertLine(input_, p, line))

\* an indented line after a first line was lexed to the end, so that a line
\* put in between them would sit before an Indent
C3_Witness ==
    /\ Finished
    /\ ~aborted_
    /\ Count(emitted, Indent) >= 1
    /\ Count(emitted, Newline) >= 2
    /\ \E p \in LineStarts(input_) : 1 < p /\ p <= Len(input_)

\* whether the literal read from position p on lacks its closing quote
RECURSIVE NoCloser(_, _, _)
NoCloser(inp, p, start) ==
    IF p > Len(inp) THEN TRUE
    ELSE IF inp[p] = BSL THEN NoCloser(inp, p + 2, start)
    ELSE IF inp[p] = start THEN FALSE
    ELSE NoCloser(inp, p + 1, start)

C9_Step ==
    (/\ ~aborted_
     /\ pos_ <= Len(input_)
     /\ input_[pos_] \in {SQ, DQ}
     /\ ~(begin_ /\ indent_pos_ # indents_)
     /\ NoCloser(input_, pos_ + 1, input_[pos_])) =>
        aborted_' /\ emitted' = emitted

\* C9: when the input ends before the closing quote of a string literal,
\* the lexer reports an error and emits no String token for the literal.
C9_Unterminated == [][C9_Step]_vars

(***************************************************************************)
(* CLAIMS ABOUT THE RUNTIME                                                 *)
(***************************************************************************)
\* one printed line
Line(n) == Decimal(n) \o TextNewline

\* what the statements of a shape print before its innermost statement
RECURSIVE PrintedBefore(_, _)
PrintedBefore(ks, d) ==
    IF ks = <<>> THEN <<>>
    ELSE (IF Head(ks) = "C" THEN Line(d) ELSE <<>>)
             \o PrintedBefore(Tail(ks), d + 1)

\* what the statements of a shape print when all of them are executed
RECURSIVE PrintedAround(_, _)
PrintedAround(ks, d) ==
    IF ks = <<>> THEN <<>>
    ELSE IF Head(ks) = "C"
    THEN Line(d) \o PrintedAround(Tail(ks), d + 1) \o Line(0 - d)
    ELSE PrintedAround(Tail(ks), d + 1)

\* the result of a body of this shape whose innermost statement yields v
RECURSIVE OwnResult(_, _)
OwnResult(ks, v) ==
    IF ks = <<>> THEN v
    ELSE IF Head(ks) = "C" THEN None
    ELSE OwnResult(Tail(ks), v)

ShapedCall(kind, ks, v) ==
    Assignment("r", MethodCall(VariableValue(<<"x">>), <<kind>> \o ks,
                               <<Const(v)>>))

\* C4: a Return executed at any depth of Compound and IfElse nodes ends the
\* method body: nothing after it is executed (only the lines before it are
\* printed), the MethodBody yields the value returned and the caller goes on
\* (method o prints its line after the inner call and returns the value);
\* a body that executes no Return yields its own result.
C4_NonLocalReturn ==
    \A kind \in {"m", "n", "o"}, ks \in Shapes, v \in ReturnValues :
        stmt = ShapedCall(kind, ks, v) =>
            /\ result.k = "ok"
            /\ "r" \in DOMAIN closure /\ closure["r"] = result.v
            /\ kind = "m" => /\ result.v = v
                             /\ out = PrintedBefore(ks, 1)
            /\ kind = "n" => /\ result.v = OwnResult(ks, v)
                             /\ out = PrintedAround(ks, 1)
            /\ kind = "o" => /\ result.v = v
                             /\ out = PrintedBefore(ks, 1) \o Line(0)

\* a Return inside an IfElse inside a Compound ended a nested call, and the
\* calling method went on
C4_Witness ==
    /\ stmt = ShapedCall("o", <<"C", "T">>, Number(7))
    /\ result = [k |-> "ok", v |-> Number(7)]
    /\ out # <<>>

\* class c and its ancestors
RECURSIVE Ancestors(_)
Ancestors(c) ==
    IF c = 0 THEN {} ELSE {c} \cup Ancestors(classes[c].parent_)

Names(c, name) ==
    {j \in 1..Len(classes[c].methods_) : classes[c].methods_[j].name = name}

\* method j of class c is the first method of this name on the way from
\* class c0 up its ancestors
IsFirstNamed(c0, c, j, name) ==
    /\ c \in Ancestors(c0)
    /\ j \in Names(c, name)
    /\ \A i \in Names(c, name) : j <= i
    /\ \A c2 \in Ancestors(c0) :
          (c2 # c /\ c \in Ancestors(c2)) => Names(c2, name) = {}

DispatchCall(name, n) ==
    MethodCall(VariableValue(<<"x">>), name, [i \in 1..n |-> Const(Number(0))])

\* C5: a call executes the body of the first method of the name found in the
\* class and then in its ancestors, when that method has as many parameters
\* as the call has arguments; otherwise it fails and executes no body.
C5_Dispatch ==
    \A name \in {<<"f">>, <<"h">>}, n \in 0..2 :
        stmt = DispatchCall(name, n) =>
            LET c0 == instances[1].cls_
                found == {m \in Ancestors(c0) \X (1..MaxMethods) :
                             /\ IsFirstNamed(c0, m[1], m[2], name)
                             /\ Len(classes[m[1]].methods_[m[2]].formal_params)
                                    = n}
            IN  IF found # {}
                THEN \A m \in found :
                        /\ result = [k |-> "ok", v |-> Number(Tag(m[1], m[2]))]
                        /\ out = Line(Tag(m[1], m[2]))
                ELSE /\ result.k = "error"
                     /\ out = <<>>

\* the class's own f has one parameter, the base class has an f without
\* parameters, and a call of f without arguments failed
C5_Witness ==
    /\ stmt = DispatchCall(<<"f">>, 0)
    /\ result.k = "error"
    /\ \E j \in Names(3, <<"f">>) :
          /\ IsFirstNamed(3, 3, j, <<"f">>)
          /\ Len(classes[3].methods_[j].formal_params) = 1
    /\ \E j \in Names(1, <<"f">>) :
          Len(classes[1].methods_[j].formal_params) = 0

IsNewInstance(node) ==
    /\ node[1] = "Assignment"
    /\ node[3][1] = "NewInstance"

\* C6: every execution of a NewInstance node yields an instance that no
\* earlier execution yielded (no name is bound to it yet), and whose fields
\* are empty before __init__ runs.
C6_FreshInstance ==
    [][(IsNewInstance(stmt') /\ result'.k = "ok") =>
           /\ \A name \in DOMAIN closure : closure[name] # result'.v
           /\ instances[result'.v.n].closure_ = EmptyClosure]_vars

\* the closure and the fields after the operation
Bound(cl, needed, l, a, r, b) ==
    IF needed THEN Put(Put(cl, l, a), r, b) ELSE Put(cl, l, a)

\* C7: And and Or execute the left operand once and the right operand once
\* if and only if the left is true (And) or not true (Or); the output, the
\* closure and the fields show the right operand only if it was executed, and
\* the result is the Bool of the operands' truth.
C7_ShortCircuit ==
    \A op \in {"And", "Or"}, a \in Truths, b \in Truths :
        stmt = LogicNode(op, a, b) =>
            LET needed == IF op = "And" THEN IsTrue(a) ELSE ~IsTrue(a)
                truth == IF op = "And" THEN IsTrue(a) /\ IsTrue(b)
                                       ELSE IsTrue(a) \/ IsTrue(b)
            IN  /\ result = [k |-> "ok", v |-> Bool(truth)]
                /\ out = <<76, 10>> \o (IF needed THEN <<82, 10>> ELSE <<>>)
                /\ closure = Bound(Put(EmptyClosure, "s", Share(1)), needed,
                                   "l", a, "r", b)
                /\ instances[1].closure_ =
                       Bound(EmptyClosure, needed, "left", a, "right", b)

\* an And whose left operand is not true did not execute a true right operand
C7_Witness ==
    /\ stmt = LogicNode("And", String(<<>>), Number(1))
    /\ result.v = Bool(FALSE)
    /\ "r" \notin DOMAIN closure

\* a < b for strings: at the first position where they differ a has the
\* smaller character, or a ends there
StringBefore(a, b) ==
    \E k \in 1..Len(b) :
        /\ \A i \in 1..(k - 1) : i <= Len(a) /\ a[i] = b[i]
        /\ Len(a) >= k - 1
        /\ (Len(a) < k \/ a[k] < b[k])

Before(a, b) == IF a.t = "String" THEN StringBefore(a.s, b.s) ELSE a.n < b.n

Compares(cmp, a, b) ==
    CASE cmp = "Equal" -> a = b
      [] cmp = "NotEqual" -> a # b
      [] cmp = "Less" -> Before(a, b)
      [] cmp = "Greater" -> Before(b, a)
      [] cmp = "LessOrEqual" -> ~Before(b, a)
      [] cmp = "GreaterOrEqual" -> ~Before(a, b)

CmpNode(cmp) ==
    Comparison(cmp, VariableValue(<<"lhs">>), VariableValue(<<"rhs">>))

\* C8: on two Numbers, two Strings or two Bools the six comparators return
\* =, /=, <, >, <=, >= of the values; two nones are Equal and not NotEqual;
\* every other pair whose left operand is no class instance is an error.
C8_Comparison ==
    \A cmp \in Comparators :
        stmt = CmpNode(cmp) =>
            LET a == closure["lhs"]
                b == closure["rhs"]
            IN  IF a.t = b.t /\ a.t \in {"Number", "String", "Bool"}
                THEN result = [k |-> "ok", v |-> Bool(Compares(cmp, a, b))]
                ELSE IF a.t = "None" /\ b.t = "None"
                        /\ cmp \in {"Equal", "NotEqual"}
                THEN result = [k |-> "ok", v |-> Bool(cmp = "Equal")]
                ELSE a.t # "ClassInstance" => result.k = "error"

\* a string was found greater than a longer string
C8_Witness ==
    /\ stmt = CmpNode("Greater")
    /\ closure["lhs"] = String(<<98>>)
    /\ closure["rhs"] = String(<<97, 98>>)
    /\ result = [k |-> "ok", v |-> Bool(TRUE)]

\* the formal parameters of the methods of class K
IsoParams == classes[1].methods_[1].formal_params

\* C11: the body of a call runs in a closure that binds exactly self, to the
\* instance called, and every formal parameter, to the argument at its
\* position; the names of the calling closure are not visible in it, and the
\* calling closure is after the call what it was before.
C11_FreshClosure ==
    /\ \A name \in ProbeNames :
          stmt = IsoCall(<<"get", name>>) =>
              /\ name = "self" => result = [k |-> "ok", v |-> Share(1)]
              /\ \A i \in 1..Len(IsoParams) :
                    IsoParams[i] = name =>
                        result = [k |-> "ok", v |-> Number(i)]
              /\ (name # "self" /\ \A i \in 1..Len(IsoParams) :
                                      IsoParams[i] # name)
                    => result.k = "error"
              /\ closure = CallerClosure
    /\ \A name \in WriteNames :
          stmt = IsoCall(<<"set", name>>) =>
              /\ result = [k |-> "ok", v |-> Number(9)]
              /\ closure = CallerClosure

\* the formal parameters have different names and none is named self
PlainParams ==
    /\ \A i \in 1..Len(IsoParams) : IsoParams[i] # "self"
    /\ \A i, j \in 1..Len(IsoParams) : IsoParams[i] = IsoParams[j] => i = j

\* C11, for methods whose formal parameters have different names, none of
\* them self
C11_PlainParams == PlainParams => C11_FreshClosure

\* the value of an argument of the print statement
ValueOf(arg) == IF arg[1] = "Const" THEN arg[2] ELSE arg[4][1][2]

\* the printed form of a value
Form(v) ==
    CASE v.t = "None" -> <<78, 111, 110, 101>>
      [] v.t = "Number" -> Decimal(v.n)
      [] v.t = "String" -> v.s
      [] v.t = "Bool" -> IF v.n = 1 THEN <<84, 114, 117, 101>>
                                    ELSE <<70, 97, 108, 115, 101>>

\* the printed forms of the values from argument i on, with single spaces
\* between them and a newline after the last
RECURSIVE PrintedLine(_, _)
PrintedLine(args, i) ==
    IF i > Len(args) THEN <<10>>
    ELSE (IF i > 1 THEN <<32>> ELSE <<>>) \o Form(ValueOf(args[i]))
             \o PrintedLine(args, i + 1)

EndsWith(text, line) ==
    /\ Len(text) >= Len(line)
    /\ SubSeq(text, Len(text) - Len(line) + 1, Len(text)) = line

\* C12: a print statement yields none, and what it appends to the output is
\* the line of the printed forms of its arguments' values, separated by
\* single spaces and ended by a newline, also when the evaluation of an
\* argument writes to the output: the output ends with that line.
C12_PrintedLine ==
    \A args \in ArgLists :
        stmt = PrintOf(args) =>
            /\ result = [k |-> "ok", v |-> None]
            /\ EndsWith(out, PrintedLine(args, 1))

\* no argument of the statement writes to the output
Silent(args) == \A i \in 1..Len(args) : args[i][1] = "Const"

\* C12, for arguments whose evaluation writes nothing: the statement appends
\* exactly the line
C12_SilentArguments ==
    \A args \in ArgLists :
        (stmt = PrintOf(args) /\ Silent(args)) =>
            /\ result = [k |-> "ok", v |-> None]
            /\ out = PrintedLine(args, 1)

====
